---- MODULE Spec2Model ----
(***************************************************************************)
(* Token lifecycle and request signing of ms-rest-nodeauth:                *)
(*   AzureCliCredentials   (src/unnamed/part_001)                          *)
(*   MSITokenCredentials   (src/dist/lib/credentials/msiTokenCredentials.js)*)
(* One credential object is constructed; callers then start getToken() and *)
(* signRequest() calls on it.  Every await of the source is a step         *)
(* boundary; calls is a function over call slots, and a specification      *)
(* chooses in its initial predicate how many calls may be in flight.       *)
(*                                                                         *)
(* JavaScript strings the code builds or inspects are sequences of         *)
(* one-character strings, so that concatenation and encoding are computed. *)
(***************************************************************************)
EXTENDS Integers, Sequences, FiniteSets, TLC

VARIABLES
    cred,              \* which class was constructed
    subscriptionInfo,  \* AzureCliCredentials.subscriptionInfo.id
    tokenInfo,         \* AzureCliCredentials.tokenInfo
    port,              \* MSITokenCredentials.port
    resource,          \* MSITokenCredentials.resource
    clock,             \* Date.now(), in milliseconds
    calls,             \* the getToken()/signRequest() calls in flight
    args,              \* the arguments the constructor was called with
    thrown,            \* the error the constructor threw, if it threw
    last               \* how the call before the current one settled

vars ==
    <<cred, subscriptionInfo, tokenInfo, port, resource, clock, calls, args,
      thrown, last>>

-----------------------------------------------------------------------------
(* Bounds of the model *)

MaxNowMs == 1500
TickMs == 500

\* call slots of Spec: one call at a time
Calls == {1}

-----------------------------------------------------------------------------
(* JavaScript values *)

Undefined == [t |-> "undefined"]
JSString(s) == [t |-> "string", s |-> s]
JSNumber(n) == [t |-> "number", v |-> n]
JSNull == [t |-> "null"]

\* a number, or NaN
Num(n) == [nan |-> FALSE, n |-> n]
NaN == [nan |-> TRUE, n |-> 0]

\* a Date object: a time value in milliseconds, or NaN (Invalid Date)
Date(ms) == [t |-> "Date", time |-> Num(ms)]
InvalidDate == [t |-> "Date", time |-> NaN]

\* a date string as the CLI prints it: it parses to a time value, or it does not
DateString(ms) == [t |-> "string", parses |-> TRUE, ms |-> ms]
BadDateString == [t |-> "string", parses |-> FALSE, ms |-> 0]

\* !v is false for every object, true for undefined, null and the empty
\* string
Truthy(v) ==
    CASE v.t = "undefined" -> FALSE
      [] v.t = "null" -> FALSE
      [] v.t = "string" /\ "s" \in DOMAIN v -> v.s # <<>>
      [] OTHER -> TRUE

MsPerSecond == 1000

\* Math.floor(x / 1000)
FloorSeconds(x) == IF x.nan THEN NaN ELSE Num(x.n \div MsPerSecond)

\* a - b
Minus(a, b) == IF a.nan \/ b.nan THEN NaN ELSE Num(a.n - b.n)

\* a < b: false when either side is NaN
Less(a, b) == ~a.nan /\ ~b.nan /\ a.n < b.n

\* new Date(v)
NewDate(v) ==
    IF v.t = "string" /\ v.parses THEN Date(v.ms) ELSE InvalidDate

\* an Error object; message and stack are lists of text segments
Error(name, message) == [name |-> name, message |-> message]

\* err.stack: the message headed by the error's name
Stack(err) == <<err.name, ": ">> \o err.message

-----------------------------------------------------------------------------
(* Text used by the model *)

Bearer == <<"B", "e", "a", "r", "e", "r">>
bearer == <<"b", "e", "a", "r", "e", "r">>
abc123 == <<"a", "b", "c", "1", "2", "3">>
xyz789 == <<"x", "y", "z", "7", "8", "9">>
BasicOld == <<"B", "a", "s", "i", "c", " ", "o", "l", "d">>

HttpLocalhost ==
    <<"h", "t", "t", "p", ":", "/", "/", "l", "o", "c", "a", "l", "h", "o",
      "s", "t", ":">>

Oauth2TokenPath ==
    <<"/", "o", "a", "u", "t", "h", "2", "/", "t", "o", "k", "e", "n">>

ResourceEquals ==
    <<"r", "e", "s", "o", "u", "r", "c", "e", "=">>

ManagementAzureCom ==
    <<"h", "t", "t", "p", "s", ":", "/", "/", "m", "a", "n", "a", "g", "e",
      "m", "e", "n", "t", ".", "a", "z", "u", "r", "e", ".", "c", "o", "m",
      "/">>

badvalue ==
    <<"b", "a", "d", "v", "a", "l", "u", "e">>

AAndBEqualsC ==
    <<"a", "&", "b", "=", "c">>

TwoSpaces ==
    <<" ", " ">>

BearerAbc123 ==
    <<"B", "e", "a", "r", "e", "r", " ", "a", "b", "c", "1", "2", "3">>

\* (tokenType, accessToken) pairs the back ends hand out
Tokens == {[tokenType |-> Bearer, accessToken |-> abc123],
           [tokenType |-> bearer, accessToken |-> xyz789]}

\* subscription ids
Accounts == {"subA", "subB"}

\* expiry instants, in milliseconds: 270.4 s, 270.999 s and 900 s after time 0
ExpiryMs == {270400, 270999, 900000}

\* the Authorization header a request may already carry
InitialHeaders == {Undefined, JSString(BasicOld)}

-----------------------------------------------------------------------------
(* AzureCliCredentials *)

tokenRenewalMarginInSeconds == 270

\* interface CliAccessToken
CliAccessToken(tok, expiresOn, subscription) ==
    [t |-> "object",
     accessToken |-> tok.accessToken,
     tokenType |-> tok.tokenType,
     expiresOn |-> expiresOn,
     subscription |-> subscription]

\* the payloads a constructor can be handed
ConstructorPayloads ==
    {CliAccessToken(tok, e, s) :
        tok \in Tokens,
        e \in {Undefined, InvalidDate} \cup {Date(ms) : ms \in ExpiryMs},
        s \in Accounts}

\* the JSON "az account get-access-token" prints
AzResults ==
    {[t |-> "object",
      accessToken |-> tok.accessToken,
      tokenType |-> tok.tokenType,
      expiresOn |-> e,
      subscription |-> s] :
        tok \in Tokens,
        e \in {Undefined, BadDateString} \cup {DateString(ms) : ms \in ExpiryMs},
        s \in Accounts}

\* what execAz(cmd) settles with: parsed JSON, nothing, or an error
ExecAzOutcomes ==
    {[ok |-> TRUE, result |-> r] : r \in AzResults \cup {Undefined}}
    \cup {[ok |-> FALSE, err |-> Error("Error", <<"az exited with code 1">>)]}

\* NeedsRefresh with <= for <: a token exactly at the margin is refreshed
NeedsRefresh_MarginInclusive(info, subscriptionId, nowMs) ==
    LET now == FloorSeconds(Num(nowMs))
    IN \/ ~Truthy(info.expiresOn)
       \/ subscriptionId # info.subscription
       \/ ~Less(Num(tokenRenewalMarginInSeconds),
                Minus(FloorSeconds(info.expiresOn.time), now))

\* NeedsRefresh without the test of the subscription
NeedsRefresh_SubscriptionIgnored(info, subscriptionId, nowMs) ==
    LET now == FloorSeconds(Num(nowMs))
    IN \/ ~Truthy(info.expiresOn)
       \/ Less(Minus(FloorSeconds(info.expiresOn.time), now),
               Num(tokenRenewalMarginInSeconds))

\* NeedsRefresh taking a token without expiry as one that never expires
NeedsRefresh_NoExpiryNeverExpires(info, subscriptionId, nowMs) ==
    LET now == FloorSeconds(Num(nowMs))
    IN \/ subscriptionId # info.subscription
       \/ /\ Truthy(info.expiresOn)
          /\ Less(Minus(FloorSeconds(info.expiresOn.time), now),
                  Num(tokenRenewalMarginInSeconds))

\* NeedsRefresh comparing in milliseconds, without Math.floor
NeedsRefresh_Milliseconds(info, subscriptionId, nowMs) ==
    \/ ~Truthy(info.expiresOn)
    \/ subscriptionId # info.subscription
    \/ Less(Minus(info.expiresOn.time, Num(nowMs)),
            Num(tokenRenewalMarginInSeconds * MsPerSecond))

\* the condition of getToken(): refresh when the expiry is missing, the
\* subscription changed, or the token is inside the renewal window
NeedsRefresh(info, subscriptionId, nowMs) ==
    LET now == FloorSeconds(Num(nowMs))
    IN \/ ~Truthy(info.expiresOn)
       \/ subscriptionId # info.subscription
       \/ Less(Minus(FloorSeconds(info.expiresOn.time), now),
               Num(tokenRenewalMarginInSeconds))

\* the command getAccessToken(subscriptionIdOrName) builds; an omitted argument
\* is "", which the code's test treats alike
GetAccessTokenCmd(subscriptionIdOrName) ==
    IF subscriptionIdOrName # ""
    THEN <<"account get-access-token", " -s \"", subscriptionIdOrName, "\"">>
    ELSE <<"account get-access-token">>

\* getAccessToken after execAz settled: the token with expiresOn made a Date,
\* or the failure wrapped in a new Error
GetAccessTokenSettle(outcome) ==
    IF outcome.ok /\ outcome.result # Undefined
    THEN [ok |-> TRUE,
          value |-> [outcome.result EXCEPT !.expiresOn = NewDate(@)]]
    ELSE LET err == IF outcome.ok
                    THEN Error("TypeError",
                               <<"Cannot set property 'expiresOn' of undefined">>)
                    ELSE outcome.err
         IN [ok |-> FALSE,
             err |-> Error("Error",
                       <<"An error occurred while getting credentials from ",
                         "Azure CLI: ">> \o Stack(err))]

\* the Error getToken() throws when the refresh failed
RefreshError(err) ==
    Error("Error",
          <<"An error occurred while refreshing the new access ", "token:">>
          \o (IF "stderr" \in DOMAIN err THEN err.stderr ELSE err.message))

\* the object getToken() returns
TokenResponse(info) ==
    [accessToken |-> info.accessToken, tokenType |-> info.tokenType]

-----------------------------------------------------------------------------
(* Calls *)

Pending == [kind |-> "pending"]
Resolved(v) == [kind |-> "resolved", value |-> v]
Rejected(e) == [kind |-> "rejected", err |-> e]

\* op       none | getToken | signRequest
\* pc       idle | execAz | sendRequest | await getToken | done
\* request  the Authorization header of the request as it was handed in
\* headers  the Authorization header of the request being signed
\* before   tokenInfo, subscriptionInfo.id and Date.now() as the call began
\* acq      the acquirer invocations this call made
\* fetched  what the acquirer returned to this call
\* token    how this call's getToken() settled
\* result   how the call settled
IdleCall ==
    [op |-> "none", pc |-> "idle", request |-> Undefined,
     headers |-> Undefined, before |-> Undefined, acq |-> <<>>,
     fetched |-> Undefined, token |-> Pending, result |-> Pending]

\* getToken() settled: a getToken call is done, a signRequest call resumes
\* after its await
TokenSettled(call, token) ==
    IF call.op = "getToken"
    THEN [call EXCEPT !.pc = "done", !.token = token, !.result = token]
    ELSE [call EXCEPT !.pc = "await getToken", !.token = token]

\* getToken() asking for a token of the subscription of the cached token
AzureCli_getTokenStart_HintFromToken(call) ==
    IF tokenInfo = Undefined
    THEN TokenSettled(call,
            Rejected(Error("TypeError",
                <<"Cannot read property 'expiresOn' of undefined">>)))
    ELSE IF NeedsRefresh(tokenInfo, subscriptionInfo, clock)
    THEN [call EXCEPT
            !.pc = "execAz",
            !.acq = Append(@, [arg |-> tokenInfo.subscription,
                               cmd |-> GetAccessTokenCmd(tokenInfo.subscription)])]
    ELSE TokenSettled(call, Resolved(TokenResponse(tokenInfo)))

\* AzureCliCredentials.getToken() up to its await, or to its end when it
\* does not refresh
AzureCli_getTokenStart(call) ==
    IF tokenInfo = Undefined
    THEN TokenSettled(call,
            Rejected(Error("TypeError",
                <<"Cannot read property 'expiresOn' of undefined">>)))
    ELSE IF NeedsRefresh(tokenInfo, subscriptionInfo, clock)
    THEN [call EXCEPT
            !.pc = "execAz",
            !.acq = Append(@, [arg |-> subscriptionInfo,
                               cmd |-> GetAccessTokenCmd(subscriptionInfo)])]
    ELSE TokenSettled(call, Resolved(TokenResponse(tokenInfo)))

\* a call as it begins
NewCall(op, h) ==
    [IdleCall EXCEPT
        !.op = op, !.request = h, !.headers = h,
        !.before = [tokenInfo |-> tokenInfo,
                    subscriptionInfo |-> subscriptionInfo,
                    clock |-> clock]]

AzureCli_getToken(c) ==
    /\ cred = "AzureCliCredentials"
    /\ calls[c].pc = "idle"
    /\ calls' = [calls EXCEPT ![c] =
                    AzureCli_getTokenStart(NewCall("getToken", Undefined))]
    /\ UNCHANGED <<cred, subscriptionInfo, tokenInfo, port, resource, clock,
                   args, last, thrown>>

AzureCli_signRequest(c, h) ==
    /\ cred = "AzureCliCredentials"
    /\ calls[c].pc = "idle"
    /\ calls' = [calls EXCEPT ![c] =
                    AzureCli_getTokenStart(NewCall("signRequest", h))]
    /\ UNCHANGED <<cred, subscriptionInfo, tokenInfo, port, resource, clock,
                   args, last, thrown>>

\* getToken() returning the token it held before the refresh
AzureCli_getTokenResume_ReturnsOld(call, got) ==
    IF got.ok
    THEN [tokenInfo |-> got.value,
          call |-> TokenSettled([call EXCEPT !.fetched = got.value],
                                Resolved(TokenResponse(tokenInfo)))]
    ELSE [tokenInfo |-> tokenInfo,
          call |-> TokenSettled(call, Rejected(RefreshError(got.err)))]

\* getToken() dropping the cached token when the refresh fails
AzureCli_getTokenResume_ClearsOnFailure(call, got) ==
    IF got.ok
    THEN [tokenInfo |-> got.value,
          call |-> TokenSettled([call EXCEPT !.fetched = got.value],
                                Resolved(TokenResponse(got.value)))]
    ELSE [tokenInfo |-> Undefined,
          call |-> TokenSettled(call, Rejected(RefreshError(got.err)))]

\* getToken() calling getAccessToken a second time when the first call failed
AzureCli_getTokenResume_RetriesOnce(call, got) ==
    IF got.ok
    THEN [tokenInfo |-> got.value,
          call |-> TokenSettled([call EXCEPT !.fetched = got.value],
                                Resolved(TokenResponse(got.value)))]
    ELSE IF Len(call.acq) < 2
    THEN [tokenInfo |-> tokenInfo,
          call |-> [call EXCEPT !.acq = Append(@, call.acq[1])]]
    ELSE [tokenInfo |-> tokenInfo,
          call |-> TokenSettled(call, Rejected(RefreshError(got.err)))]

\* getToken() storing a fetched token only when it expires later than the
\* one held
AzureCli_getTokenResume_KeepsLaterExpiry(call, got) ==
    IF got.ok
    THEN [tokenInfo |->
              IF /\ Truthy(tokenInfo.expiresOn)
                 /\ Less(got.value.expiresOn.time, tokenInfo.expiresOn.time)
              THEN tokenInfo ELSE got.value,
          call |-> TokenSettled([call EXCEPT !.fetched = got.value],
                                Resolved(TokenResponse(got.value)))]
    ELSE [tokenInfo |-> tokenInfo,
          call |-> TokenSettled(call, Rejected(RefreshError(got.err)))]

\* getToken() after its await: it stores the new token and returns it, or
\* throws the refresh error and stores nothing
AzureCli_getTokenResume(call, got) ==
    IF got.ok
    THEN [tokenInfo |-> got.value,
          call |-> TokenSettled([call EXCEPT !.fetched = got.value],
                                Resolved(TokenResponse(got.value)))]
    ELSE [tokenInfo |-> tokenInfo,
          call |-> TokenSettled(call, Rejected(RefreshError(got.err)))]

\* execAz settles: getAccessToken returns or throws, and getToken() resumes
AzureCli_execAzSettles(c, outcome) ==
    /\ calls[c].pc = "execAz"
    /\ LET next == AzureCli_getTokenResume(calls[c],
                                           GetAccessTokenSettle(outcome))
       IN /\ tokenInfo' = next.tokenInfo
          /\ calls' = [calls EXCEPT ![c] = next.call]
    /\ UNCHANGED <<cred, subscriptionInfo, port, resource, clock, args, last,
                   thrown>>

\* the header with the scheme written out instead of taken from the token
AzureCli_authorization_FixedScheme(tokenResponse) ==
    Bearer \o <<" ">> \o tokenResponse.accessToken

\* `${tokenResponse.tokenType} ${tokenResponse.accessToken}`
AzureCli_authorization(tokenResponse) ==
    tokenResponse.tokenType \o <<" ">> \o tokenResponse.accessToken

\* signRequest() catching the rejection and returning the request unsigned
AzureCli_signRequestResume_SwallowsError(call) ==
    IF call.token.kind = "resolved"
    THEN LET h == JSString(AzureCli_authorization(call.token.value))
         IN [call EXCEPT !.pc = "done", !.headers = h,
                         !.result = Resolved([headers |-> h])]
    ELSE [call EXCEPT !.pc = "done",
                      !.result = Resolved([headers |-> call.headers])]

\* signRequest() after its await of getToken(): it sets the header and
\* returns the request, or the rejection of getToken() passes through
AzureCli_signRequestResume(call) ==
    IF call.token.kind = "resolved"
    THEN LET h == JSString(AzureCli_authorization(call.token.value))
         IN [call EXCEPT !.pc = "done", !.headers = h,
                         !.result = Resolved([headers |-> h])]
    ELSE [call EXCEPT !.pc = "done", !.result = call.token]

AzureCli_signRequestResumes(c) ==
    /\ cred = "AzureCliCredentials"
    /\ calls[c].pc = "await getToken"
    /\ calls' = [calls EXCEPT ![c] = AzureCli_signRequestResume(calls[c])]
    /\ UNCHANGED <<cred, subscriptionInfo, tokenInfo, port, resource, clock,
                   args, last, thrown>>

\* the user switches the subscription to work against
SetSubscription(s) ==
    /\ cred = "AzureCliCredentials"
    /\ s # subscriptionInfo
    /\ subscriptionInfo' = s
    /\ UNCHANGED <<cred, tokenInfo, port, resource, clock, calls, args,
                   last, thrown>>

-----------------------------------------------------------------------------
(* MSITokenCredentials *)

\* the printable ASCII characters, in code order from 32 (space) to 126 (~);
\* code 96, the grave accent, is spelled out
Ascii ==
    <<" ", "!", "\"", "#", "$", "%", "&", "'", "(", ")", "*", "+", ",", "-",
      ".", "/", "0", "1", "2", "3", "4", "5", "6", "7", "8", "9", ":", ";",
      "<", "=", ">", "?", "@", "A", "B", "C", "D", "E", "F", "G", "H", "I",
      "J", "K", "L", "M", "N", "O", "P", "Q", "R", "S", "T", "U", "V", "W",
      "X", "Y", "Z", "[", "\\", "]", "^", "_", "grave", "a", "b", "c", "d", "e",
      "f", "g", "h", "i", "j", "k", "l", "m", "n", "o", "p", "q", "r", "s",
      "t", "u", "v", "w", "x", "y", "z", "{", "|", "}", "~">>

HexDigits ==
    <<"0", "1", "2", "3", "4", "5", "6", "7", "8", "9",
      "A", "B", "C", "D", "E", "F">>

Digits == <<"0", "1", "2", "3", "4", "5", "6", "7", "8", "9">>

\* the code unit of an ASCII character
CharCode(ch) == 31 + (CHOOSE i \in 1..Len(Ascii) : Ascii[i] = ch)

\* the characters encodeURIComponent leaves alone: A-Z a-z 0-9 - _ . ! ~ * ' ( )
IsUnreserved(ch) ==
    LET code == CharCode(ch)
    IN \/ code \in CharCode("A")..CharCode("Z")
       \/ code \in CharCode("a")..CharCode("z")
       \/ code \in CharCode("0")..CharCode("9")
       \/ ch \in {"-", "_", ".", "!", "~", "*", "'", "(", ")"}

\* %XX, the code of the character in two upper-case hex digits
PercentEncode(ch) ==
    LET code == CharCode(ch)
    IN <<"%", HexDigits[(code \div 16) + 1], HexDigits[(code % 16) + 1]>>

\* `${n}` for a non-negative integer
RECURSIVE NumberToString(_)
NumberToString(n) ==
    IF n < 10 THEN <<Digits[n + 1]>>
    ELSE NumberToString(n \div 10) \o <<Digits[(n % 10) + 1]>>

DefaultPort == 50342
CustomPort == 50341

\* the arguments the constructor is given; undefined takes the default.  A
\* caller may also pass the port as text, pass null, or swap the two arguments
FiveZeroThreeFourTwo == <<"5", "0", "3", "4", "2">>

PortArgs ==
    {Undefined, JSNumber(CustomPort), JSString(FiveZeroThreeFourTwo),
     JSString(ManagementAzureCom), JSNull}
ResourceArgs ==
    {Undefined, JSString(badvalue), JSString(TwoSpaces), JSString(AAndBEqualsC),
     JSNumber(DefaultPort), JSNull}

\* the TypeError of null.valueOf()
ValueOfNull ==
    Error("TypeError", <<"Cannot read property 'valueOf' of null">>)

\* the constructor storing a port of any type
MSI_constructor_PortUnchecked(portArg, resourceArg) ==
    LET p == IF portArg = Undefined THEN JSNumber(DefaultPort) ELSE portArg
        r == IF resourceArg = Undefined THEN JSString(ManagementAzureCom)
             ELSE resourceArg
    IN IF p.t = "null" \/ r.t = "null"
       THEN [threw |-> TRUE, err |-> ValueOfNull]
       ELSE IF r.t # "string"
       THEN [threw |-> TRUE,
             err |-> Error("Error", <<"resource must be a uri of type string.">>)]
       ELSE [threw |-> FALSE,
             port |-> IF p.t = "number" THEN p.v ELSE DefaultPort,
             resource |-> r.s]

\* the constructor: the defaults of its parameters, then its two type tests;
\* valueOf() of null throws before the test it is part of
MSI_constructor(portArg, resourceArg) ==
    LET p == IF portArg = Undefined THEN JSNumber(DefaultPort) ELSE portArg
        r == IF resourceArg = Undefined THEN JSString(ManagementAzureCom)
             ELSE resourceArg
    IN IF p.t = "null"
       THEN [threw |-> TRUE, err |-> ValueOfNull]
       ELSE IF p.t # "number"
       THEN [threw |-> TRUE, err |-> Error("Error", <<"port must be a number.">>)]
       ELSE IF r.t = "null"
       THEN [threw |-> TRUE, err |-> ValueOfNull]
       ELSE IF r.t # "string"
       THEN [threw |-> TRUE,
             err |-> Error("Error", <<"resource must be a uri of type string.">>)]
       ELSE [threw |-> FALSE, port |-> p.v, resource |-> r.s]

\* encodeURIComponent escaping as encodeURI does: ; , / ? : @ & = + $ # stay
RECURSIVE encodeURIComponent_AsEncodeURI(_)
encodeURIComponent_AsEncodeURI(str) ==
    IF str = <<>> THEN <<>>
    ELSE (IF \/ IsUnreserved(Head(str))
             \/ Head(str) \in {";", ",", "/", "?", ":", "@", "&", "=", "+",
                                "$", "#"}
          THEN <<Head(str)>>
          ELSE PercentEncode(Head(str)))
         \o encodeURIComponent_AsEncodeURI(Tail(str))

RECURSIVE encodeURIComponent(_)
encodeURIComponent(str) ==
    IF str = <<>> THEN <<>>
    ELSE (IF IsUnreserved(Head(str)) THEN <<Head(str)>>
          ELSE PercentEncode(Head(str)))
         \o encodeURIComponent(Tail(str))

\* MSITokenCredentials.prepareRequestOptions()
prepareRequestOptions(thisPort, thisResource) ==
    [url |-> HttpLocalhost \o NumberToString(thisPort) \o Oauth2TokenPath,
     headers |-> [ContentType |->
                      "application/x-www-form-urlencoded; charset=UTF-8",
                  Metadata |-> "true"],
     body |-> ResourceEquals \o encodeURIComponent(thisResource),
     method |-> "POST"]

\* response bodies as parsed JSON: each of the two fields is absent, empty or
\* set; bodyAsJson is undefined when the body is no JSON
MsiBodies ==
    {[t |-> "object", token_type |-> tt, access_token |-> at] :
        tt \in {Undefined, JSString(<<>>), JSString(Bearer)},
        at \in {Undefined, JSString(abc123)}}
    \cup {Undefined}

HttpStatuses == {200, 500}

\* opRes.bodyAsText: the text of the body, as the names of the fields it has
BodyAsText(json) ==
    IF json = Undefined THEN <<>>
    ELSE (IF json.token_type # Undefined THEN <<"token_type">> ELSE <<>>)
         \o (IF json.access_token # Undefined THEN <<"access_token">> ELSE <<>>)

\* what client.sendRequest(reqOptions) settles with
SendRequestOutcomes ==
    {[ok |-> TRUE,
      opRes |-> [status |-> st, bodyAsJson |-> b, bodyAsText |-> BodyAsText(b)]] :
        st \in HttpStatuses, b \in MsiBodies}
    \cup {[ok |-> FALSE, err |-> Error("RestError", <<"connect ECONNREFUSED">>)]}

\* getToken() testing token_type only
MSI_getTokenSettle_AccessTokenUnchecked(outcome) ==
    IF ~outcome.ok THEN Rejected(outcome.err)
    ELSE LET opRes == outcome.opRes
             result == opRes.bodyAsJson
         IN IF result = Undefined
            THEN Rejected(Error("TypeError",
                    <<"Cannot read property '", "token_type",
                      "' of undefined">>))
            ELSE IF ~Truthy(result.token_type)
            THEN Rejected(Error("Error",
                    <<"Invalid token response, did not find ", "token_type",
                      ". Response body is: ">> \o opRes.bodyAsText))
            ELSE Resolved(result)

\* the try block of getToken() after sendRequest settled, and its catch
MSI_getTokenSettle(outcome) ==
    IF ~outcome.ok THEN Rejected(outcome.err)
    ELSE LET opRes == outcome.opRes
             result == opRes.bodyAsJson
         IN IF result = Undefined
            THEN Rejected(Error("TypeError",
                    <<"Cannot read property '", "token_type",
                      "' of undefined">>))
            ELSE IF ~Truthy(result.token_type)
            THEN Rejected(Error("Error",
                    <<"Invalid token response, did not find ", "token_type",
                      ". Response body is: ">> \o opRes.bodyAsText))
            ELSE IF ~Truthy(result.access_token)
            THEN Rejected(Error("Error",
                    <<"Invalid token response, did not find ", "access_token",
                      ". Response body is: ">> \o opRes.bodyAsText))
            ELSE Resolved(result)

\* getToken() answering from a token kept from the call before, when that
\* call resolved
MSI_getTokenStart_KeepsToken(call) ==
    IF last = "resolved"
    THEN TokenSettled(call,
            Resolved([t |-> "object", token_type |-> JSString(Bearer),
                      access_token |-> JSString(abc123)]))
    ELSE [call EXCEPT !.pc = "sendRequest",
                      !.acq = Append(@, prepareRequestOptions(port, resource))]

\* MSITokenCredentials.getToken() up to its yield of sendRequest
MSI_getTokenStart(call) ==
    [call EXCEPT !.pc = "sendRequest",
                 !.acq = Append(@, prepareRequestOptions(port, resource))]

MSI_getToken(c) ==
    /\ cred = "MSITokenCredentials"
    /\ calls[c].pc = "idle"
    /\ calls' = [calls EXCEPT ![c] =
                    MSI_getTokenStart(NewCall("getToken", Undefined))]
    /\ UNCHANGED <<cred, subscriptionInfo, tokenInfo, port, resource, clock,
                   args, last, thrown>>

MSI_signRequest(c, h) ==
    /\ cred = "MSITokenCredentials"
    /\ calls[c].pc = "idle"
    /\ calls' = [calls EXCEPT ![c] =
                    MSI_getTokenStart(NewCall("signRequest", h))]
    /\ UNCHANGED <<cred, subscriptionInfo, tokenInfo, port, resource, clock,
                   args, last, thrown>>

\* sendRequest settles and getToken() resolves or rejects
MSI_sendRequestSettles(c, outcome) ==
    /\ calls[c].pc = "sendRequest"
    /\ calls' = [calls EXCEPT ![c] =
                    TokenSettled([@ EXCEPT !.fetched = outcome],
                                 MSI_getTokenSettle(outcome))]
    /\ UNCHANGED <<cred, subscriptionInfo, tokenInfo, port, resource, clock,
                   args, last, thrown>>

\* `${tokenResponse.token_type} ${tokenResponse.access_token}`
MSI_authorization(tokenResponse) ==
    tokenResponse.token_type.s \o <<" ">> \o tokenResponse.access_token.s

\* signRequest() after its yield of getToken()
MSI_signRequestResume(call) ==
    IF call.token.kind = "resolved"
    THEN LET h == JSString(MSI_authorization(call.token.value))
         IN [call EXCEPT !.pc = "done", !.headers = h,
                         !.result = Resolved([headers |-> h])]
    ELSE [call EXCEPT !.pc = "done", !.result = call.token]

MSI_signRequestResumes(c) ==
    /\ cred = "MSITokenCredentials"
    /\ calls[c].pc = "await getToken"
    /\ calls' = [calls EXCEPT ![c] = MSI_signRequestResume(calls[c])]
    /\ UNCHANGED <<cred, subscriptionInfo, tokenInfo, port, resource, clock,
                   args, last, thrown>>

-----------------------------------------------------------------------------
(* Environment *)

\* time passes
Tick ==
    /\ clock + TickMs <= MaxNowMs
    /\ clock' = clock + TickMs
    /\ UNCHANGED <<cred, subscriptionInfo, tokenInfo, port, resource, calls,
                   args, last, thrown>>

\* the caller consumed the settled promise
Return(c) ==
    /\ calls[c].pc = "done"
    /\ calls' = [calls EXCEPT ![c] = IdleCall]
    /\ last' = calls[c].result.kind
    /\ UNCHANGED <<cred, subscriptionInfo, tokenInfo, port, resource, clock,
                   args, thrown>>

-----------------------------------------------------------------------------

\* new AzureCliCredentials(subscriptionInfo, tokenInfo)
InitAzureCli ==
    /\ cred = "AzureCliCredentials"
    /\ subscriptionInfo \in Accounts
    /\ tokenInfo \in ConstructorPayloads \cup {Undefined}
    /\ port = 0
    /\ resource = <<>>
    /\ args = Undefined
    /\ thrown = Undefined

\* new MSITokenCredentials(port, resource): the object, or none when the
\* constructor threw
InitMSI ==
    /\ \E portArg \in PortArgs, resourceArg \in ResourceArgs :
        LET made == MSI_constructor(portArg, resourceArg)
        IN /\ args = [port |-> portArg, resource |-> resourceArg]
           /\ IF made.threw
              THEN /\ cred = "none"
                   /\ thrown = made.err
                   /\ port = 0
                   /\ resource = <<>>
              ELSE /\ cred = "MSITokenCredentials"
                   /\ thrown = Undefined
                   /\ port = made.port
                   /\ resource = made.resource
    /\ subscriptionInfo = ""
    /\ tokenInfo = Undefined

Init ==
    /\ InitAzureCli \/ InitMSI
    /\ clock = 0
    /\ calls = [c \in Calls |-> IdleCall]
    /\ last = "none"

Next ==
    \/ \E c \in DOMAIN calls : AzureCli_getToken(c)
    \/ \E c \in DOMAIN calls, h \in InitialHeaders : AzureCli_signRequest(c, h)
    \/ \E c \in DOMAIN calls, o \in ExecAzOutcomes : AzureCli_execAzSettles(c, o)
    \/ \E c \in DOMAIN calls : AzureCli_signRequestResumes(c)
    \/ \E s \in Accounts : SetSubscription(s)
    \/ \E c \in DOMAIN calls : MSI_getToken(c)
    \/ \E c \in DOMAIN calls, h \in InitialHeaders : MSI_signRequest(c, h)
    \/ \E c \in DOMAIN calls, o \in SendRequestOutcomes : MSI_sendRequestSettles(c, o)
    \/ \E c \in DOMAIN calls : MSI_signRequestResumes(c)
    \/ Tick
    \/ \E c \in DOMAIN calls : Return(c)

Spec == Init /\ [][Next]_vars

-----------------------------------------------------------------------------
(* Overlapping calls on one AzureCliCredentials object *)

\* call slots of SpecOverlap: two calls may be in flight at once
OverlapCalls == {1, 2}

\* the payloads the object is constructed with in SpecOverlap: one without
\* expiry and one 270.4 s from expiry
OverlapPayloads ==
    {p \in ConstructorPayloads :
        /\ p.accessToken = abc123
        /\ p.expiresOn \in {Undefined, Date(270400)}}

\* what execAz settles with in SpecOverlap: a token of either account with
\* an earlier or a later expiry, with an expiry that does not parse or with
\* none, or an error
OverlapOutcomes ==
    {o \in ExecAzOutcomes :
        o.ok => /\ o.result # Undefined
                /\ o.result.accessToken = xyz789
                /\ o.result.expiresOn
                        \in {DateString(270999), DateString(900000),
                             BadDateString, Undefined}}

\* one AzureCliCredentials object holding a token, shared by two callers
InitOverlap ==
    /\ InitAzureCli
    /\ tokenInfo \in OverlapPayloads
    /\ clock = 0
    /\ calls = [c \in OverlapCalls |-> IdleCall]
    /\ last = "none"

\* two getToken() calls, each started once, in any interleaving
NextOverlap ==
    \/ \E c \in DOMAIN calls : AzureCli_getToken(c)
    \/ \E c \in DOMAIN calls, o \in OverlapOutcomes :
            AzureCli_execAzSettles(c, o)
    \/ \E s \in Accounts : SetSubscription(s)
    \/ Tick

SpecOverlap == InitOverlap /\ [][NextOverlap]_vars

-----------------------------------------------------------------------------
(* Properties of AzureCliCredentials.getToken() *)

CliCalls ==
    {c \in DOMAIN calls :
        cred = "AzureCliCredentials" /\ calls[c].pc # "idle"}

\* the call began with a cached token
HadToken(call) == call.before.tokenInfo # Undefined

\* the cached token had an expiry that is a point in time
HadExpiry(call) ==
    /\ HadToken(call)
    /\ call.before.tokenInfo.expiresOn # Undefined
    /\ ~call.before.tokenInfo.expiresOn.time.nan

\* floor(expiresAt) - now as the call began, both in whole seconds
SecondsLeft(call) ==
    (call.before.tokenInfo.expiresOn.time.n \div 1000)
        - (call.before.clock \div 1000)

AccountMatched(call) ==
    call.before.subscriptionInfo = call.before.tokenInfo.subscription

\* tokenType and accessToken of a payload
TokenOf(info) ==
    [accessToken |-> info.accessToken, tokenType |-> info.tokenType]

\* C1: a call that began with a cached token whose expiry is present, whose
\* subscription is the wanted one and that is at least 270 s from expiry
\* resolves with the cached tokenType and accessToken, invokes the acquirer
\* not at all and leaves tokenInfo as it was.
C1_FreshTokenServedFromCache ==
    \A c \in CliCalls :
        LET call == calls[c]
        IN (HadExpiry(call) /\ AccountMatched(call) /\ SecondsLeft(call) >= 270)
           => /\ call.token = Resolved(TokenOf(call.before.tokenInfo))
              /\ call.acq = <<>>
              /\ call.fetched = Undefined
              /\ tokenInfo = call.before.tokenInfo

\* witness of C1: a getToken() call done on a token exactly 270 s from expiry
C1_Witness ==
    \E c \in CliCalls :
        LET call == calls[c]
        IN /\ call.op = "getToken" /\ call.pc = "done"
           /\ HadExpiry(call) /\ AccountMatched(call)
           /\ SecondsLeft(call) = 270
           /\ call.token.kind = "resolved"

\* C2: a call that began with a cached token less than 270 s from expiry
\* invokes the acquirer exactly once; when the acquirer returns a payload,
\* tokenInfo is that payload and the call resolves with its tokenType and
\* accessToken, whatever the expiry of the new payload.
C2_StaleTokenRefreshedOnce ==
    \A c \in CliCalls :
        LET call == calls[c]
        IN (HadExpiry(call) /\ SecondsLeft(call) < 270)
           => /\ Len(call.acq) = 1
              /\ call.token.kind = "resolved"
                 => /\ call.fetched # Undefined
                    /\ tokenInfo = call.fetched
                    /\ call.token.value = TokenOf(call.fetched)

\* witness of C2: a stale token was replaced by a payload with another token
\* that is itself inside the renewal window, and the call returned the new one
C2_Witness ==
    \E c \in CliCalls :
        LET call == calls[c]
        IN /\ call.op = "getToken" /\ call.pc = "done"
           /\ HadExpiry(call) /\ AccountMatched(call)
           /\ SecondsLeft(call) < 270
           /\ call.token.kind = "resolved"
           /\ call.token.value = TokenOf(tokenInfo)
           /\ TokenOf(tokenInfo) # TokenOf(call.before.tokenInfo)
           /\ ~tokenInfo.expiresOn.time.nan
           /\ (tokenInfo.expiresOn.time.n \div 1000)
                 - (call.before.clock \div 1000) < 270

\* C3: a call that began with subscriptionInfo.id differing from
\* tokenInfo.subscription invokes the acquirer with subscriptionInfo.id as its
\* argument, also when the cached token is far from expiry.
C3_SubscriptionChangeForcesRefresh ==
    \A c \in CliCalls :
        LET call == calls[c]
        IN (HadToken(call) /\ ~AccountMatched(call))
           => /\ Len(call.acq) = 1
              /\ call.acq[1].arg = call.before.subscriptionInfo

\* witness of C3: the refresh of a token 900 s from expiry
C3_Witness ==
    \E c \in CliCalls :
        LET call == calls[c]
        IN /\ HadExpiry(call) /\ ~AccountMatched(call)
           /\ SecondsLeft(call) > 800
           /\ call.pc = "done"
           /\ call.token.kind = "resolved"
           /\ call.acq[1].arg = call.before.subscriptionInfo

\* the Error getToken() throws for a failed refresh
IsRefreshError(err) ==
    /\ err.name = "Error"
    /\ Len(err.message) > 2
    /\ err.message[1] = "An error occurred while refreshing the new access "
    /\ err.message[2] = "token:"

\* C4: when the acquirer fails on a credential that holds a cached token,
\* tokenInfo stays as it was and the call rejects with the refresh error; a
\* call that follows a rejected one and finds the cached token still valid
\* resolves with it without invoking the acquirer.
C4_FailedRefreshKeepsCachedToken ==
    \A c \in CliCalls :
        LET call == calls[c]
        IN /\ (HadToken(call) /\ call.token.kind = "rejected")
              => /\ tokenInfo = call.before.tokenInfo
                 /\ IsRefreshError(call.token.err)
                 /\ Len(call.acq) = 1
                 /\ call.pc = "done" => call.result = call.token
           /\ (/\ last = "rejected"
               /\ HadExpiry(call) /\ AccountMatched(call)
               /\ SecondsLeft(call) >= 270)
              => /\ call.token = Resolved(TokenOf(call.before.tokenInfo))
                 /\ call.acq = <<>>

\* witness of C4: the call before was rejected, which left the cached token in
\* place, and this call is served that token from the cache
C4_Witness ==
    \E c \in CliCalls :
        LET call == calls[c]
        IN /\ last = "rejected"
           /\ call.op = "getToken" /\ call.pc = "done"
           /\ HadExpiry(call) /\ AccountMatched(call)
           /\ SecondsLeft(call) >= 270
           /\ call.token = Resolved(TokenOf(tokenInfo))
           /\ call.acq = <<>>

\* C5: on a credential without cached token, a getToken() that rejects does so
\* with the refresh error that wraps the failure of the acquirer, and
\* tokenInfo stays absent.
C5_NoTokenRejectsWithRefreshError ==
    \A c \in CliCalls :
        LET call == calls[c]
        IN (~HadToken(call) /\ call.token.kind = "rejected")
           => /\ IsRefreshError(call.token.err)
              /\ Len(call.acq) = 1
              /\ tokenInfo = Undefined

\* C6: a call that began with a cached token whose expiresOn is absent
\* invokes the acquirer, whether or not the subscription matches, and when it
\* resolves it does so with the token the acquirer returned.
C6_AbsentExpiryAlwaysRefreshes ==
    \A c \in CliCalls :
        LET call == calls[c]
        IN (HadToken(call) /\ call.before.tokenInfo.expiresOn = Undefined)
           => /\ Len(call.acq) = 1
              /\ call.token.kind = "resolved"
                 => /\ call.fetched # Undefined
                    /\ call.token.value = TokenOf(call.fetched)

\* witness of C6: a token without expiry for the wanted subscription was
\* replaced by a payload with another token
C6_Witness ==
    \E c \in CliCalls :
        LET call == calls[c]
        IN /\ HadToken(call) /\ call.before.tokenInfo.expiresOn = Undefined
           /\ AccountMatched(call)
           /\ call.pc = "done"
           /\ call.token.kind = "resolved"
           /\ call.token.value # TokenOf(call.before.tokenInfo)

-----------------------------------------------------------------------------
(* Properties of signRequest(), of both classes *)

SignCalls == {c \in DOMAIN calls : calls[c].op = "signRequest"}

\* tokenType and accessToken of what getToken() resolved with
ResolvedTokenType(call) ==
    IF cred = "AzureCliCredentials" THEN call.token.value.tokenType
    ELSE call.token.value.token_type.s

ResolvedAccessToken(call) ==
    IF cred = "AzureCliCredentials" THEN call.token.value.accessToken
    ELSE call.token.value.access_token.s

\* C7: a signRequest() whose getToken() resolved resolves with the request,
\* whose Authorization header is the tokenType as returned, one space and the
\* accessToken; for "Bearer" and "abc123" it is "Bearer abc123".
C7_AuthorizationHeader ==
    \A c \in SignCalls :
        LET call == calls[c]
            tt == ResolvedTokenType(call)
            at == ResolvedAccessToken(call)
            h == call.headers
        IN (call.pc = "done" /\ call.token.kind = "resolved")
           => /\ call.result = Resolved([headers |-> h])
              /\ h.t = "string"
              /\ Len(h.s) = Len(tt) + 1 + Len(at)
              /\ SubSeq(h.s, 1, Len(tt)) = tt
              /\ h.s[Len(tt) + 1] = " "
              /\ SubSeq(h.s, Len(tt) + 2, Len(h.s)) = at
              /\ (tt = Bearer /\ at = abc123) => h.s = BearerAbc123

\* witness of C7: a request signed with a lower-case token type
C7_Witness ==
    \E c \in SignCalls :
        LET call == calls[c]
        IN /\ cred = "AzureCliCredentials"
           /\ call.pc = "done"
           /\ call.token = Resolved([accessToken |-> xyz789,
                                     tokenType |-> bearer])
           /\ call.request = JSString(BasicOld)
           /\ call.headers # call.request

\* C8: a signRequest() whose getToken() rejected rejects with the same error
\* and leaves the Authorization header of the request as it was handed in.
C8_SignPropagatesRejection ==
    \A c \in SignCalls :
        LET call == calls[c]
        IN call.token.kind = "rejected"
           => /\ call.headers = call.request
              /\ call.result.kind # "resolved"
              /\ call.pc = "done" => call.result = call.token

\* witness of C8: a signRequest() rejected with the refresh error, on a
\* request that carried a header
C8_Witness ==
    \E c \in SignCalls :
        LET call == calls[c]
        IN /\ cred = "AzureCliCredentials"
           /\ call.pc = "done"
           /\ call.result.kind = "rejected"
           /\ IsRefreshError(call.result.err)
           /\ call.request = JSString(BasicOld)

-----------------------------------------------------------------------------
(* Properties of MSITokenCredentials.getToken() *)

MsiCalls ==
    {c \in DOMAIN calls :
        cred = "MSITokenCredentials" /\ calls[c].pc # "idle"}

Url50342 ==
    <<"h", "t", "t", "p", ":", "/", "/", "l", "o", "c", "a", "l", "h", "o",
      "s", "t", ":", "5", "0", "3", "4", "2", "/", "o", "a", "u", "t", "h",
      "2", "/", "t", "o", "k", "e", "n">>

Url50341 ==
    <<"h", "t", "t", "p", ":", "/", "/", "l", "o", "c", "a", "l", "h", "o",
      "s", "t", ":", "5", "0", "3", "4", "1", "/", "o", "a", "u", "t", "h",
      "2", "/", "t", "o", "k", "e", "n">>

BodyManagementAzureCom ==
    <<"r", "e", "s", "o", "u", "r", "c", "e", "=", "h", "t", "t", "p", "s",
      "%", "3", "A", "%", "2", "F", "%", "2", "F", "m", "a", "n", "a", "g",
      "e", "m", "e", "n", "t", ".", "a", "z", "u", "r", "e", ".", "c", "o",
      "m", "%", "2", "F">>

BodyBadvalue ==
    <<"r", "e", "s", "o", "u", "r", "c", "e", "=", "b", "a", "d", "v", "a",
      "l", "u", "e">>

BodyTwoSpaces ==
    <<"r", "e", "s", "o", "u", "r", "c", "e", "=", "%", "2", "0", "%", "2",
      "0">>

BodyAAndBEqualsC ==
    <<"r", "e", "s", "o", "u", "r", "c", "e", "=", "a", "%", "2", "6", "b",
      "%", "3", "D", "c">>

\* the body the tests and the specification expect for each resource
ExpectedBody ==
    CASE args.resource = Undefined -> BodyManagementAzureCom
      [] args.resource = JSString(badvalue) -> BodyBadvalue
      [] args.resource = JSString(TwoSpaces) -> BodyTwoSpaces
      [] args.resource = JSString(AAndBEqualsC) -> BodyAAndBEqualsC

\* a response with status 200 that carries token_type and access_token
GoodResponse(outcome) ==
    /\ outcome.ok
    /\ outcome.opRes.status = 200
    /\ outcome.opRes.bodyAsJson # Undefined
    /\ outcome.opRes.bodyAsJson.token_type = JSString(Bearer)
    /\ outcome.opRes.bodyAsJson.access_token = JSString(abc123)

\* C9: every call sends one request: a POST to
\* http://localhost:{port}/oauth2/token, port 50342 when the constructor got
\* none and the given port otherwise, with header Metadata: true and the one
\* field resource={url-encoded resource} as its body; a 200 response with
\* token_type and access_token resolves getToken() with both.
C9_MetadataRequest ==
    \A c \in MsiCalls :
        LET call == calls[c]
            req == call.acq[1]
        IN /\ Len(call.acq) = 1
           /\ req.method = "POST"
           /\ args.port = Undefined => req.url = Url50342
           /\ args.port = JSNumber(50341) => req.url = Url50341
           /\ req.headers.Metadata = "true"
           /\ req.body = ExpectedBody
           /\ \A i \in 1..Len(req.body) :
                /\ req.body[i] # "&"
                /\ req.body[i] = "=" => i = 9
           /\ (call.fetched # Undefined /\ GoodResponse(call.fetched))
              => /\ call.token.kind = "resolved"
                 /\ call.token.value.token_type = JSString(Bearer)
                 /\ call.token.value.access_token = JSString(abc123)

\* witness of C9: a getToken() for the default resource on the default port,
\* resolved from a 200 response
C9_Witness ==
    \E c \in MsiCalls :
        LET call == calls[c]
        IN /\ call.op = "getToken" /\ call.pc = "done"
           /\ args = [port |-> Undefined, resource |-> Undefined]
           /\ call.acq[1].body = BodyManagementAzureCom
           /\ GoodResponse(call.fetched)
           /\ call.result.kind = "resolved"

\* the response was parsed to a JSON object
JsonResponse(call) ==
    /\ call.fetched # Undefined
    /\ call.fetched.ok
    /\ call.fetched.opRes.bodyAsJson # Undefined

\* the field is absent from the response, or empty
Lacks(call, field) ==
    LET body == call.fetched.opRes.bodyAsJson
        v == IF field = "token_type" THEN body.token_type
             ELSE body.access_token
    IN v = Undefined \/ v = JSString(<<>>)

\* the message of the error has the name of the field in it
Mentions(err, field) == \E i \in 1..Len(err.message) : err.message[i] = field

\* C10 as claimed: a response that lacks token_type or access_token rejects
\* getToken() with an error that names each field it lacks.
C10_NamesEveryMissingField ==
    \A c \in MsiCalls : \A field \in {"token_type", "access_token"} :
        LET call == calls[c]
        IN (JsonResponse(call) /\ Lacks(call, field))
           => /\ call.token.kind = "rejected"
              /\ Mentions(call.token.err, field)

\* C10, amended: getToken() never resolves with a payload that lacks
\* token_type or access_token; a response that lacks token_type rejects with
\* an error that names token_type, and a response that has token_type and
\* lacks access_token rejects with an error that names access_token.
C10_RejectsNamingFirstMissingField ==
    \A c \in MsiCalls :
        LET call == calls[c]
        IN /\ call.token.kind = "resolved"
              => /\ JsonResponse(call)
                 /\ ~Lacks(call, "token_type")
                 /\ ~Lacks(call, "access_token")
                 /\ call.token.value = call.fetched.opRes.bodyAsJson
           /\ (JsonResponse(call) /\ Lacks(call, "token_type"))
              => /\ call.token.kind = "rejected"
                 /\ Mentions(call.token.err, "token_type")
           /\ (/\ JsonResponse(call)
               /\ ~Lacks(call, "token_type")
               /\ Lacks(call, "access_token"))
              => /\ call.token.kind = "rejected"
                 /\ Mentions(call.token.err, "access_token")

\* witness of C10: a response with token_type and without access_token, and
\* the rejection that names access_token
C10_Witness ==
    \E c \in MsiCalls :
        LET call == calls[c]
        IN /\ call.pc = "done"
           /\ JsonResponse(call)
           /\ ~Lacks(call, "token_type")
           /\ Lacks(call, "access_token")
           /\ call.result.kind = "rejected"
           /\ Mentions(call.result.err, "access_token")

-----------------------------------------------------------------------------
(* Failures of the metadata endpoint *)

\* the HTTP exchange failed: no response came, the status is outside 200..299,
\* or the body is no JSON
ExchangeFailed(outcome) ==
    \/ ~outcome.ok
    \/ outcome.opRes.status \notin 200..299
    \/ outcome.opRes.bodyAsJson = Undefined

\* C11: whenever the HTTP exchange of an MSITokenCredentials getToken() fails
\* (a transport error, a status outside 2xx, a body that is no JSON), the
\* getToken() rejects and never resolves with a token.
C11_FailedExchangeRejects ==
    \A c \in MsiCalls :
        LET call == calls[c]
        IN (call.fetched # Undefined /\ ExchangeFailed(call.fetched))
           => call.token.kind = "rejected"

-----------------------------------------------------------------------------
(* The constructor of MSITokenCredentials *)

\* the constructor was given a port that is no number
BadPort == args.port # Undefined /\ args.port.t # "number"

\* the constructor was given a resource that is no string
BadResource == args.resource # Undefined /\ args.resource.t # "string"

PortMustBeANumber == Error("Error", <<"port must be a number.">>)
ResourceMustBeAString ==
    Error("Error", <<"resource must be a uri of type string.">>)

\* C12: new MSITokenCredentials(port, resource) with a port that is no number
\* or a resource that is no string throws in the constructor: there is an
\* error, no credential object, and at no later time a request or a call; with
\* a text port the error is "port must be a number.", with a number resource
\* next to a valid port it is "resource must be a uri of type string.".  When
\* both arguments are valid nothing is thrown, and no call on the object
\* rejects with either error.
C12_ConstructorThrows ==
    args # Undefined =>
        /\ (BadPort \/ BadResource)
           => /\ thrown # Undefined
              /\ cred = "none"
              /\ \A c \in DOMAIN calls : calls[c] = IdleCall
              /\ last = "none"
        /\ (BadPort /\ args.port.t = "string") => thrown = PortMustBeANumber
        /\ (~BadPort /\ BadResource /\ args.resource.t = "number")
           => thrown = ResourceMustBeAString
        /\ ~(BadPort \/ BadResource)
           => /\ thrown = Undefined
              /\ cred = "MSITokenCredentials"
              /\ \A c \in DOMAIN calls :
                    calls[c].token.kind = "rejected"
                    => calls[c].token.err
                            \notin {PortMustBeANumber, ResourceMustBeAString}

\* witness of C12: the port given as the text "50342" with the default
\* resource; the constructor threw, and time has passed since
C12_Witness ==
    /\ args = [port |-> JSString(FiveZeroThreeFourTwo), resource |-> Undefined]
    /\ thrown = PortMustBeANumber
    /\ cred = "none"
    /\ clock > 0

-----------------------------------------------------------------------------
(* No retry *)

\* the call is waiting for its acquirer: execAz or sendRequest
Fetching(call) == call.pc \in {"execAz", "sendRequest"}

\* the one fetch of the call is over and brought no token: execAz failed or
\* printed nothing, or sendRequest failed
FetchFailed(call) ==
    /\ call.pc # "idle"
    /\ ~Fetching(call)
    /\ call.acq # <<>>
    /\ IF cred = "AzureCliCredentials"
       THEN call.fetched = Undefined
       ELSE ~call.fetched.ok

\* C13: no getToken() or signRequest() call of either class invokes its
\* acquirer more than once; while the acquirer runs the call has invoked it
\* once and is unsettled, and once the fetch has failed the call's getToken()
\* is rejected, as is the call when it ends: there is no second attempt.
C13_NoRetry ==
    \A c \in DOMAIN calls :
        LET call == calls[c]
        IN /\ Len(call.acq) <= 1
           /\ Fetching(call) => Len(call.acq) = 1 /\ call.token = Pending
           /\ FetchFailed(call)
              => /\ call.token.kind = "rejected"
                 /\ call.pc = "done" => call.result = call.token

\* witness of C13: a signRequest() of AzureCliCredentials whose one fetch
\* failed, ended in rejection
C13_Witness ==
    \E c \in CliCalls :
        LET call == calls[c]
        IN /\ call.op = "signRequest" /\ call.pc = "done"
           /\ FetchFailed(call)
           /\ Len(call.acq) = 1
           /\ call.result.kind = "rejected"

-----------------------------------------------------------------------------
(* The boundary of the renewal window *)

\* C14: getToken() compares floor(expiresOn / 1000) - floor(now / 1000) with
\* the margin by <: a call that began with a matching token exactly 270 whole
\* seconds from expiry, fractions of a second dropped on both sides, invokes
\* no acquirer and resolves from the cache; one that began 269 whole seconds
\* from expiry invokes the acquirer once.
C14_StrictTruncatedComparison ==
    \A c \in CliCalls :
        LET call == calls[c]
        IN (HadExpiry(call) /\ AccountMatched(call))
           => /\ SecondsLeft(call) = tokenRenewalMarginInSeconds
                 => /\ call.acq = <<>>
                    /\ call.token = Resolved(TokenOf(call.before.tokenInfo))
              /\ SecondsLeft(call) = tokenRenewalMarginInSeconds - 1
                 => Len(call.acq) = 1

\* witness of C14: a token expiring at 270.4 s served from the cache at
\* 0.5 s, when 269.9 s are left and the truncated difference is 270
C14_Witness ==
    \E c \in CliCalls :
        LET call == calls[c]
        IN /\ call.pc = "done"
           /\ HadExpiry(call) /\ AccountMatched(call)
           /\ call.before.tokenInfo.expiresOn = Date(270400)
           /\ call.before.clock = 500
           /\ SecondsLeft(call) = tokenRenewalMarginInSeconds
           /\ call.acq = <<>>
           /\ call.result.kind = "resolved"

-----------------------------------------------------------------------------
(* Overlapping refreshes *)

\* the call began with a cached token that had to be refreshed: no expiry,
\* another subscription, or less than 270 s from expiry
Stale(call) ==
    /\ HadToken(call)
    /\ \/ call.before.tokenInfo.expiresOn = Undefined
       \/ ~AccountMatched(call)
       \/ HadExpiry(call) /\ SecondsLeft(call) < tokenRenewalMarginInSeconds

\* two calls that began on the same stale token have each invoked the
\* acquirer
BothInvokeAcquirer ==
    \A c, d \in CliCalls :
        (/\ c # d
         /\ Stale(calls[c]) /\ Stale(calls[d])
         /\ calls[c].before.tokenInfo = calls[d].before.tokenInfo)
        => Len(calls[c].acq) = 1 /\ Len(calls[d].acq) = 1

\* a refresh that completes with a token stores it whatever tokenInfo holds,
\* and its call resolves with that token
LastWriteWins ==
    \A c \in DOMAIN calls :
        (calls[c].pc = "execAz" /\ calls'[c].token.kind = "resolved")
        => /\ tokenInfo' = calls'[c].fetched
           /\ calls'[c].token.value = TokenOf(tokenInfo')

\* C15: refreshes of one AzureCliCredentials object are not serialized: two
\* getToken() calls that began on the same stale token both invoke the
\* acquirer, and every refresh that completes with a token overwrites
\* tokenInfo, so tokenInfo ends as the token of the refresh that completed
\* last, also when that token expires earlier than the one it replaces.
C15_UnserializedRefreshes ==
    []BothInvokeAcquirer /\ [][LastWriteWins]_vars

\* witness of C15: two calls began on the same stale token and both refreshed
\* with success, one fetching a token that expires at 900 s and the other one
\* that expires at 270.999 s; tokenInfo is the token that expires earlier
C15_Witness ==
    /\ DOMAIN calls = OverlapCalls
    /\ \A c \in OverlapCalls :
        /\ calls[c].pc = "done" /\ calls[c].result.kind = "resolved"
        /\ Stale(calls[c])
        /\ Len(calls[c].acq) = 1
    /\ calls[1].before.tokenInfo = calls[2].before.tokenInfo
    /\ calls[1].fetched.expiresOn = Date(900000)
    /\ calls[2].fetched.expiresOn = Date(270999)
    /\ calls[1].result.value = TokenOf(calls[1].fetched)
    /\ tokenInfo = calls[2].fetched

-----------------------------------------------------------------------------
(* The account of the token a call resolves with *)

\* the acquirer answered with a token of the account it was asked for
AcquirerHonoursHint(call) ==
    call.fetched # Undefined => call.fetched.subscription = call.acq[1].arg

\* the account of the payload the call took its token from: the fetched
\* payload, or the cached one
AccountOfToken(call) ==
    IF call.fetched # Undefined THEN call.fetched.subscription
    ELSE call.before.tokenInfo.subscription

\* C16 as claimed: provided the acquirer returns a token of the account it
\* was asked for, a getToken() that resolves does so with a token of the
\* account that subscriptionInfo.id names in the state in which it resolves,
\* also when subscriptionInfo.id was changed or another call completed during
\* the refresh.
C16_TokenOfDesiredAccount ==
    [][\A c \in DOMAIN calls :
        (/\ calls[c].token = Pending
         /\ calls'[c].token.kind = "resolved"
         /\ AcquirerHonoursHint(calls'[c]))
        => AccountOfToken(calls'[c]) = subscriptionInfo']_vars

\* C16, amended: provided the acquirer returns a token of the account it was
\* asked for, a getToken() that resolves does so with a token of the account
\* that subscriptionInfo.id named when the call began, whatever
\* subscriptionInfo.id names by then and whatever other calls stored in
\* tokenInfo meanwhile.
C16_TokenOfAccountAtCallStart ==
    \A c \in CliCalls :
        LET call == calls[c]
        IN (call.token.kind = "resolved" /\ AcquirerHonoursHint(call))
           => /\ AccountOfToken(call) = call.before.subscriptionInfo
              /\ call.fetched # Undefined
                 => call.token.value = TokenOf(call.fetched)

\* witness of C16: call 1 began at time 0 for subA; the subscription was
\* switched to subB and call 2 began at 0.5 s, before call 1 had stored
\* anything; both refreshes brought the account they asked for, call 1
\* completed last and resolved with the token of subA while
\* subscriptionInfo.id names subB
C16_Witness ==
    /\ DOMAIN calls = OverlapCalls
    /\ \A c \in OverlapCalls :
        /\ calls[c].pc = "done" /\ calls[c].result.kind = "resolved"
        /\ calls[c].fetched # Undefined
        /\ AcquirerHonoursHint(calls[c])
    /\ calls[1].before.clock = 0
    /\ calls[2].before.clock = 500
    /\ calls[1].before.subscriptionInfo = "subA"
    /\ calls[2].before.subscriptionInfo = "subB"
    /\ calls[1].before.tokenInfo = calls[2].before.tokenInfo
    /\ tokenInfo = calls[1].fetched
    /\ AccountOfToken(calls[1]) = "subA"
    /\ subscriptionInfo = "subB"

-----------------------------------------------------------------------------
(* Tokens fetched without a usable expiry *)

\* the token the call began with was stored by the refresh of another call,
\* from output of the acquirer whose expiresOn was missing or did not parse
BeganOnRefreshedTokenWithoutExpiry(c) ==
    /\ HadToken(calls[c])
    /\ calls[c].before.tokenInfo.expiresOn = InvalidDate
    /\ \E d \in CliCalls :
        /\ d # c
        /\ calls[d].pc = "done"
        /\ calls[d].fetched = calls[c].before.tokenInfo

\* C17: a getToken() that begins on a token stored by a refresh whose output
\* had no expiry, or one that does not parse, invokes the acquirer, as a call
\* does that begins on a constructor-supplied token without expiry.
C17_RefreshedWithoutExpiryNeverCached ==
    \A c \in CliCalls :
        BeganOnRefreshedTokenWithoutExpiry(c) => Len(calls[c].acq) = 1

-----------------------------------------------------------------------------
(* MSITokenCredentials keeps no token *)

\* every call in flight has sent one request, the one the constructor's
\* arguments determine; the object holds no token; and a response that
\* carries both fields resolves the call with them, however the call before
\* ended
OneRequestPerCall ==
    \A c \in MsiCalls :
        LET call == calls[c]
        IN /\ Len(call.acq) = 1
           /\ call.acq[1] = prepareRequestOptions(port, resource)
           /\ tokenInfo = Undefined
           /\ (/\ JsonResponse(call)
               /\ ~Lacks(call, "token_type")
               /\ ~Lacks(call, "access_token"))
              => call.token = Resolved(call.fetched.opRes.bodyAsJson)

\* a step that begins a call sends one request and leaves the call waiting
\* for the response; no other step sends a request; and no step changes port
\* or resource
RequestSentAtCallStart ==
    cred = "MSITokenCredentials"
    => /\ \A c \in DOMAIN calls :
            /\ (calls[c].pc = "idle" /\ calls'[c].pc # "idle")
               => /\ calls'[c].pc = "sendRequest"
                  /\ Len(calls'[c].acq) = 1
            /\ (calls[c].pc # "idle" /\ calls'[c].pc # "idle")
               => calls'[c].acq = calls[c].acq
       /\ port' = port
       /\ resource' = resource

\* C18: MSITokenCredentials keeps no token between calls: every getToken()
\* and every signRequest() sends exactly one request, sent as the call
\* begins, so that calls made one after another send one request each; and a
\* call that follows a failed call sends the same request and resolves when
\* its own response carries token_type and access_token.
C18_NoTokenState ==
    []OneRequestPerCall /\ [][RequestSentAtCallStart]_vars

\* witness of C18: the call before was rejected, and the present call sent
\* its one request and resolved from a 200 response
C18_Witness ==
    \E c \in MsiCalls :
        LET call == calls[c]
        IN /\ last = "rejected"
           /\ call.pc = "done"
           /\ Len(call.acq) = 1
           /\ GoodResponse(call.fetched)
           /\ call.result.kind = "resolved"

====
